---- MODULE Spec2Model ----
(***************************************************************************)
(* Model of import-csv.py: the importer that loads the rows of a CSV file  *)
(* into the transactions table of an MSSQL database.                       *)
(*                                                                         *)
(* Strings are sequences of one-character strings, so that lower(),        *)
(* float() and the comparisons with '' and 'True' are computed and not     *)
(* assumed.  The database is its committed table and the rows of the open  *)
(* transaction of the one connection (pyodbc connects with autocommit      *)
(* off).  Table rows are counted by origin: rows that were in the table    *)
(* before the run ("old") and rows inserted by the run ("new").            *)
(***************************************************************************)
EXTENDS Integers, Sequences, FiniteSets, TLC

\* ------------------------------------------------------------------ bounds
MaxRows == 201        \* most rows the CSV file holds
MaxExisting == 1      \* most rows in the table before the run
MaxBadRows == 2       \* most rows of the file that fail conversion or insert
MaxCommitFailed == 2  \* most periodic commits that raise in one run

\* ------------------------------------------------------- program constants
CommitEvery == 100

\* ----------------------------------------------------------------- strings
S_empty == << >>
S_yes == <<"y", "e", "s">>
S_True == <<"T", "r", "u", "e">>

Digits == {"0", "1", "2", "3", "4", "5", "6", "7", "8", "9"}

DigitVal(c) ==
  CASE c = "0" -> 0 [] c = "1" -> 1 [] c = "2" -> 2 [] c = "3" -> 3
    [] c = "4" -> 4 [] c = "5" -> 5 [] c = "6" -> 6 [] c = "7" -> 7
    [] c = "8" -> 8 [] c = "9" -> 9

\* str.lower(), on the letters the modelled responses are written with
LowerChar(c) ==
  CASE c = "Y" -> "y" [] c = "E" -> "e" [] c = "S" -> "s"
    [] c = "N" -> "n" [] c = "O" -> "o" [] OTHER -> c

Lower(s) == [i \in 1..Len(s) |-> LowerChar(s[i])]

RECURSIVE LStrip(_)
LStrip(s) == IF s # << >> /\ Head(s) = " " THEN LStrip(Tail(s)) ELSE s

RECURSIVE RStrip(_)
RStrip(s) ==
  IF s # << >> /\ s[Len(s)] = " " THEN RStrip(SubSeq(s, 1, Len(s) - 1)) ELSE s

Strip(s) == RStrip(LStrip(s))

AllDigits(s) == \A i \in 1..Len(s) : s[i] \in Digits

RECURSIVE DigitsVal(_)
DigitsVal(s) ==
  IF s = << >> THEN 0
  ELSE 10 * DigitsVal(SubSeq(s, 1, Len(s) - 1)) + DigitVal(s[Len(s)])

\* position of the first "." of s, 0 when it has none
PointAt(s) ==
  IF \E i \in 1..Len(s) : s[i] = "."
  THEN CHOOSE i \in 1..Len(s) : s[i] = "." /\ \A j \in 1..(i - 1) : s[j] # "."
  ELSE 0

\* hundredths denoted by the fraction digits f (at most two are modelled)
FracVal(f) ==
  IF Len(f) = 0 THEN 0
  ELSE IF Len(f) = 1 THEN 10 * DigitVal(f[1])
  ELSE 10 * DigitVal(f[1]) + DigitVal(f[2])

\* float(s) on decimal literals: surrounding blanks are dropped, one sign is
\* allowed, then digits with at most one point and at least one digit.
\* ok = FALSE is the ValueError; val is the number in hundredths.
ParseFloat(s) ==
  LET t == Strip(s)
      signed == t # << >> /\ Head(t) \in {"+", "-"}
      body == IF signed THEN Tail(t) ELSE t
      p == PointAt(body)
      ip == IF p = 0 THEN body ELSE SubSeq(body, 1, p - 1)
      fp == IF p = 0 THEN << >> ELSE SubSeq(body, p + 1, Len(body))
      wellFormed == AllDigits(ip) /\ AllDigits(fp) /\ Len(ip) + Len(fp) > 0
      mag == 100 * DigitsVal(ip) + FracVal(fp)
  IN IF wellFormed
     THEN [ok |-> TRUE, val |-> IF signed /\ Head(t) = "-" THEN 0 - mag ELSE mag]
     ELSE [ok |-> FALSE, val |-> 0]

\* ------------------------------------------------------------ CSV records
\* The five columns the importer converts; the other eleven are bound exactly
\* as csv.DictReader returned them and decide nothing.
AmountStrs == { << >>, <<"1", "2", ".", "5">>, <<"-", "3">>, <<" ", "7", " ">>,
                <<"a", "b", "c">>, <<"1", ".", "2", ".", "3">> }
BalanceStrs == { << >>, <<"1", "0", "0", ".", "0">>, <<".", "5">>, <<"x">>, <<"-">> }
RecurringStrs == { << >>, S_True, <<"t", "r", "u", "e">>, <<"1">>,
                   <<"F", "a", "l", "s", "e">> }
FrequencyStrs == { << >>, <<"M", "o">> }
NotesStrs == { << >>, <<"n", "b">> }

Rows ==
  [amount : AmountStrs, balance_after : BalanceStrs, is_recurring : RecurringStrs,
   recurring_frequency : FrequencyStrs, notes : NotesStrs]

\* values bound to the INSERT's parameter markers
Null == [tag |-> "null"]
IntParam(n) == [tag |-> "int", v |-> n]
FloatParam(h) == [tag |-> "float", v |-> h]
StrParam(s) == [tag |-> "str", v |-> s]

NoParams == [ok |-> FALSE, bound |-> << >>]

\* Convert with is_recurring compared case-insensitively with 'true'
ConvertAnyCase(row) ==
  LET is_recurring ==
        IF row.is_recurring = S_empty THEN Null
        ELSE IF row.is_recurring \in {S_True, <<"t", "r", "u", "e">>}
             THEN IntParam(1) ELSE IntParam(0)
      recurring_frequency ==
        IF row.recurring_frequency = S_empty THEN Null
        ELSE StrParam(row.recurring_frequency)
      notes == IF row.notes = S_empty THEN Null ELSE StrParam(row.notes)
      bal == ParseFloat(row.balance_after)
      amt == ParseFloat(row.amount)
      raised == (row.balance_after # S_empty /\ ~bal.ok) \/ ~amt.ok
  IN IF raised THEN NoParams
     ELSE [ok |-> TRUE,
           bound |-> [amount |-> FloatParam(amt.val),
                      balance_after |-> IF row.balance_after = S_empty THEN Null
                                        ELSE FloatParam(bal.val),
                      is_recurring |-> is_recurring,
                      recurring_frequency |-> recurring_frequency,
                      notes |-> notes]]

\* lines 76-98: the conversions of one row and the tuple handed to
\* cursor.execute; ok = FALSE when float() raised
Convert(row) ==
  LET is_recurring ==
        IF row.is_recurring = S_empty THEN Null
        ELSE IF row.is_recurring = S_True THEN IntParam(1) ELSE IntParam(0)
      recurring_frequency ==
        IF row.recurring_frequency = S_empty THEN Null
        ELSE StrParam(row.recurring_frequency)
      notes == IF row.notes = S_empty THEN Null ELSE StrParam(row.notes)
      bal == ParseFloat(row.balance_after)
      amt == ParseFloat(row.amount)
      raised == (row.balance_after # S_empty /\ ~bal.ok) \/ ~amt.ok
  IN IF raised THEN NoParams
     ELSE [ok |-> TRUE,
           bound |-> [amount |-> FloatParam(amt.val),
                      balance_after |-> IF row.balance_after = S_empty THEN Null
                                        ELSE FloatParam(bal.val),
                      is_recurring |-> is_recurring,
                      recurring_frequency |-> recurring_frequency,
                      notes |-> notes]]

\* answers the operator may type at the prompt
Responses == { S_yes, <<"Y", "E", "S">>, <<"n", "o">>, <<"y">>,
               <<" ", "y", "e", "s">>, << >> }

\* rows the CSV file of a run is made of: every amount and balance_after
\* case, the three columns that cannot fail held at one value
CsvRows ==
  { r \in Rows : /\ r.is_recurring = S_True
                 /\ r.recurring_frequency = S_empty
                 /\ r.notes = S_empty }

\* ------------------------------------------------------------------- state
VARIABLES
  pc,               \* position of the process: start, preflight, prompt, open,
                    \* loop, report, done
  connOpen,         \* the connection returned by get_connection is open
  closeCount,       \* calls of conn.close()
  exitCode,         \* exit status of the process, -1 while it runs
  endedBy,          \* how the run ended
  table,            \* committed rows of transactions: [old, new]
  pendingRows,      \* rows inserted in the open transaction, not committed
  initialRows,      \* rows in the table when the run started
  existing_count,   \* local of import_csv_data
  response,         \* local of import_csv_data
  openCalled,       \* open(CSV_FILE) was called
  imported_count,   \* local of import_csv_data
  error_count,      \* local of import_csv_data
  consumed,         \* rows the for loop has taken from csv_reader
  badRows,          \* consumed rows whose conversion raised or insert was rejected
  commitFailed,     \* periodic commits that raised
  finalCommitted,   \* the commit of line 111 returned
  selectsIssued,    \* SELECT statements executed
  truncatesIssued,  \* TRUNCATE statements executed
  insertsIssued,    \* INSERT statements executed
  commitsIssued,    \* conn.commit() calls
  row,              \* the record under conversion (conversion check only)
  params            \* the result of its conversion (conversion check only)

connVars == <<connOpen, closeCount>>
exitVars == <<exitCode, endedBy>>
promptVars == <<existing_count, response>>
loopVars == <<imported_count, error_count, consumed, badRows, commitFailed>>
opVars == <<selectsIssued, truncatesIssued, insertsIssued, commitsIssued>>
convVars == <<row, params>>

vars == <<pc, connOpen, closeCount, exitCode, endedBy, table, pendingRows,
          initialRows, existing_count, response, openCalled, imported_count,
          error_count, consumed, badRows, commitFailed, finalCommitted,
          selectsIssued, truncatesIssued, insertsIssued, commitsIssued,
          row, params>>

\* row count a SELECT of this connection sees
View == table.old + table.new + pendingRows

NoRow == [amount |-> S_empty, balance_after |-> S_empty, is_recurring |-> S_empty,
          recurring_frequency |-> S_empty, notes |-> S_empty]

Start ==
  /\ pc = "start"
  /\ connOpen = FALSE
  /\ closeCount = 0
  /\ exitCode = -1
  /\ endedBy = "running"
  /\ pendingRows = 0
  /\ existing_count = 0
  /\ response = S_empty
  /\ openCalled = FALSE
  /\ imported_count = 0
  /\ error_count = 0
  /\ consumed = 0
  /\ badRows = 0
  /\ commitFailed = 0
  /\ finalCommitted = FALSE
  /\ selectsIssued = 0
  /\ truncatesIssued = 0
  /\ insertsIssued = 0
  /\ commitsIssued = 0

Init ==
  /\ Start
  /\ initialRows \in 0..MaxExisting
  /\ table = [old |-> initialRows, new |-> 0]
  /\ row = NoRow
  /\ params = NoParams

\* the answer stripped of blanks before the comparison
ConfirmsReimportStripped(answer) == Lower(Strip(answer)) = S_yes

\* line 46: the answer that confirms the reimport
ConfirmsReimport(answer) == Lower(answer) = S_yes

\* a TRUNCATE that removes nothing
TruncatedNothing(t) == t

\* line 47: the table after TRUNCATE TABLE transactions
Truncated(t) == [old |-> 0, new |-> 0]

\* the prompt skipped
AfterPreflightNoPrompt(n) == "open"

\* line 43: where the run goes after the COUNT query
AfterPreflight(n) == IF n > 0 THEN "prompt" ELSE "open"

\* the increment of line 99 lost
ImportedNotCounted(n) == n

\* line 99
ImportedAfterInsert(n) == n + 1

\* the failure of line 107 counted twice
ErrorsCountedTwice(e) == e + 2

\* line 107
ErrorsAfterFailure(e) == e + 1

\* line 102: the periodic commit is due
ShouldCommit(n) == n % CommitEvery = 0

\* the declined reimport reported as a failure
ExitStatusDeclinedFails(how) == IF how = "normal" THEN 0 ELSE 1

\* exit status of the process by the way import_csv_data ended: a return
\* lets main fall off its end, sys.exit(1) and an uncaught exception give 1
ExitStatus(how) == IF how \in {"normal", "declined"} THEN 0 ELSE 1

\* the run ended by sys.exit leaves the connection open
FinishNoCloseOnExit(how) ==
  /\ pc' = "done"
  /\ endedBy' = how
  /\ exitCode' = ExitStatus(how)
  /\ connOpen' = (how \in {"file_missing", "read_error"})
  /\ closeCount' = IF how \in {"file_missing", "read_error"} THEN closeCount
                   ELSE closeCount + 1
  /\ pendingRows' = 0

\* main, lines 142-146: import_csv_data has ended (returned, raised or called
\* sys.exit); the finally block closes the connection, which rolls back the
\* open transaction, and the process exits with code.
Finish(how) ==
  /\ pc' = "done"
  /\ endedBy' = how
  /\ exitCode' = ExitStatus(how)
  /\ connOpen' = FALSE
  /\ closeCount' = closeCount + 1
  /\ pendingRows' = 0

\* get_connection, lines 27-33
Connect ==
  /\ pc = "start"
  /\ \E connected \in BOOLEAN :
       IF connected
       THEN /\ connOpen' = TRUE
            /\ pc' = "preflight"
            /\ UNCHANGED <<closeCount, exitVars>>
       ELSE /\ pc' = "done"
            /\ exitCode' = ExitStatus("connect_failed")
            /\ endedBy' = "connect_failed"
            /\ UNCHANGED connVars
  /\ UNCHANGED <<table, pendingRows, initialRows, promptVars, openCalled, loopVars,
                 finalCommitted, opVars, convVars>>

\* import_csv_data, lines 37-43: the COUNT query
Preflight ==
  /\ pc = "preflight"
  /\ selectsIssued' = selectsIssued + 1
  /\ \E raised \in BOOLEAN :
       IF raised
       THEN /\ Finish("exception")
            /\ UNCHANGED existing_count
       ELSE /\ existing_count' = View
            /\ pc' = AfterPreflight(View)
            /\ UNCHANGED <<connVars, exitVars, pendingRows>>
  /\ UNCHANGED <<table, initialRows, response, openCalled, loopVars, finalCommitted,
                 truncatesIssued, insertsIssued, commitsIssued, convVars>>

\* import_csv_data, lines 44-52: the prompt, and the TRUNCATE with its commit
Prompt ==
  /\ pc = "prompt"
  /\ \E answer \in Responses :
       /\ response' = answer
       /\ IF ConfirmsReimport(answer)
          THEN /\ truncatesIssued' = truncatesIssued + 1
               /\ \/ \* TRUNCATE and commit succeed
                     /\ commitsIssued' = commitsIssued + 1
                     /\ table' = Truncated(table)
                     /\ pc' = "open"
                     /\ UNCHANGED <<connVars, exitVars, pendingRows>>
                  \/ \* cursor.execute raises
                     /\ Finish("exception")
                     /\ UNCHANGED <<commitsIssued, table>>
                  \/ \* conn.commit raises
                     /\ commitsIssued' = commitsIssued + 1
                     /\ Finish("exception")
                     /\ UNCHANGED table
          ELSE /\ Finish("declined")
               /\ UNCHANGED <<truncatesIssued, commitsIssued, table>>
  /\ UNCHANGED <<initialRows, existing_count, openCalled, loopVars, finalCommitted,
                 selectsIssued, insertsIssued, convVars>>

\* import_csv_data, lines 66-72 and 113-118: opening the CSV file
OpenFile ==
  /\ pc = "open"
  /\ openCalled' = TRUE
  /\ \/ /\ pc' = "loop"
        /\ UNCHANGED <<connVars, exitVars, pendingRows>>
     \/ Finish("file_missing")
     \/ Finish("read_error")
  /\ UNCHANGED <<table, initialRows, promptVars, loopVars, finalCommitted, opVars,
                 convVars>>

\* import_csv_data, lines 73-108: one iteration of the row loop, with the
\* periodic commit of lines 102-104 and the handler of lines 106-108
ProcessRow ==
  /\ pc = "loop"
  /\ consumed < MaxRows
  /\ consumed' = consumed + 1
  /\ \E r \in CsvRows :
       \/ \* float() raises (line 79 or 92)
          /\ ~Convert(r).ok
          /\ badRows < MaxBadRows
          /\ badRows' = badRows + 1
          /\ error_count' = ErrorsAfterFailure(error_count)
          /\ UNCHANGED <<imported_count, commitFailed, insertsIssued, commitsIssued,
                         table, pendingRows>>
       \/ \* cursor.execute raises: the database rejects the row
          /\ Convert(r).ok
          /\ badRows < MaxBadRows
          /\ insertsIssued' = insertsIssued + 1
          /\ badRows' = badRows + 1
          /\ error_count' = ErrorsAfterFailure(error_count)
          /\ UNCHANGED <<imported_count, commitFailed, commitsIssued, table,
                         pendingRows>>
       \/ \* the row is inserted
          /\ Convert(r).ok
          /\ insertsIssued' = insertsIssued + 1
          /\ imported_count' = ImportedAfterInsert(imported_count)
          /\ UNCHANGED badRows
          /\ IF ShouldCommit(imported_count')
             THEN /\ commitsIssued' = commitsIssued + 1
                  /\ \/ \* the commit returns
                        /\ table' = [table EXCEPT !.new = @ + pendingRows + 1]
                        /\ pendingRows' = 0
                        /\ UNCHANGED <<error_count, commitFailed>>
                     \/ \* the commit raises and the transaction stays open
                        /\ commitFailed < MaxCommitFailed
                        /\ commitFailed' = commitFailed + 1
                        /\ error_count' = ErrorsAfterFailure(error_count)
                        /\ pendingRows' = pendingRows + 1
                        /\ UNCHANGED table
                     \/ \* the commit raises and the server rolled back
                        /\ commitFailed < MaxCommitFailed
                        /\ commitFailed' = commitFailed + 1
                        /\ error_count' = ErrorsAfterFailure(error_count)
                        /\ pendingRows' = 0
                        /\ UNCHANGED table
             ELSE /\ pendingRows' = pendingRows + 1
                  /\ UNCHANGED <<commitsIssued, table, error_count, commitFailed>>
  /\ UNCHANGED <<pc, connVars, exitVars, initialRows, promptVars, openCalled,
                 finalCommitted, selectsIssued, truncatesIssued, convVars>>

\* lines 73 and 116-118: reading the next record raises (csv.Error, a decoding
\* error); the outer handler calls sys.exit(1)
ReadFails ==
  /\ pc = "loop"
  /\ Finish("read_error")
  /\ UNCHANGED <<table, initialRows, promptVars, openCalled, loopVars,
                 finalCommitted, opVars, convVars>>

\* lines 110-111 and 116-118: csv_reader is exhausted, the final commit
EndOfStream ==
  /\ pc = "loop"
  /\ commitsIssued' = commitsIssued + 1
  /\ \/ \* the commit returns
        /\ table' = [table EXCEPT !.new = @ + pendingRows]
        /\ pendingRows' = 0
        /\ finalCommitted' = TRUE
        /\ pc' = "report"
        /\ UNCHANGED <<connVars, exitVars>>
     \/ \* the commit raises: caught at line 116, sys.exit(1)
        /\ Finish("read_error")
        /\ UNCHANGED <<table, finalCommitted>>
  /\ UNCHANGED <<initialRows, promptVars, openCalled, loopVars, selectsIssued,
                 truncatesIssued, insertsIssued, convVars>>

\* lines 120-132: the summary and the sample query
Report ==
  /\ pc = "report"
  /\ selectsIssued' = selectsIssued + 1
  /\ \/ Finish("normal")
     \/ \* the sample query raises
        Finish("exception")
  /\ UNCHANGED <<table, initialRows, promptVars, openCalled, loopVars,
                 finalCommitted, truncatesIssued, insertsIssued, commitsIssued,
                 convVars>>

Next ==
  \/ Connect
  \/ Preflight
  \/ Prompt
  \/ OpenFile
  \/ ProcessRow
  \/ ReadFails
  \/ EndOfStream
  \/ Report

Spec == Init /\ [][Next]_vars

\* ------------------------------------------------- conversion of one record
ConvInit ==
  /\ Start
  /\ initialRows = 0
  /\ table = [old |-> 0, new |-> 0]
  /\ row \in Rows
  /\ params = NoParams

\* lines 76-98 applied to row
BindRow ==
  /\ pc = "start"
  /\ pc' = "bound"
  /\ params' = Convert(row)
  /\ UNCHANGED <<connVars, exitVars, table, pendingRows, initialRows, promptVars,
                 openCalled, loopVars, finalCommitted, opVars, row>>

ConvNext == BindRow

ConvSpec == ConvInit /\ [][ConvNext]_vars

\* ------------------------------------------------------------------ claims
Ended == pc = "done"
InLoopOrAfter == pc = "loop" \/ finalCommitted \/ endedBy = "read_error"
TruncateCommits == IF truncatesIssued > 0 THEN 1 ELSE 0

\* C1: with an empty table, N rows that all convert and insert, and no failing
\* commit, the run executes exactly N INSERTs, the table holds exactly N rows
\* after the final commit, imported_count = N and error_count = 0.
C1_CleanImport ==
  (finalCommitted /\ initialRows = 0 /\ badRows = 0 /\ commitFailed = 0)
    => /\ insertsIssued = consumed
       /\ table = [old |-> 0, new |-> consumed]
       /\ imported_count = consumed
       /\ error_count = 0

C1_Witness ==
  /\ endedBy = "normal"
  /\ initialRows = 0
  /\ badRows = 0
  /\ commitFailed = 0
  /\ consumed = 2 * CommitEvery
  /\ table.new = consumed
  /\ imported_count = consumed

\* C2: a row whose conversion raises or whose INSERT is rejected is not
\* inserted, adds exactly 1 to error_count and nothing to imported_count, and
\* leaves the loop running; every other row is inserted and counted, so that
\* after the final commit the table holds every row of the file but the bad ones.
C2_BadRowSkipped ==
  [][ /\ (badRows' = badRows + 1)
          => /\ error_count' = error_count + 1
             /\ imported_count' = imported_count
             /\ table' = table
             /\ pendingRows' = pendingRows
             /\ pc' = "loop"
      /\ (consumed' = consumed + 1 /\ badRows' = badRows)
          => /\ imported_count' = imported_count + 1
             /\ insertsIssued' = insertsIssued + 1
      /\ imported_count' = consumed' - badRows'
      /\ (finalCommitted' /\ commitFailed' = 0) => table'.new = consumed' - badRows'
    ]_vars

C2_Witness ==
  /\ endedBy = "normal"
  /\ badRows = 2
  /\ error_count = 2
  /\ imported_count = CommitEvery
  /\ consumed = CommitEvery + 2
  /\ table.new = CommitEvery

\* C3: when the table has rows and the lower-cased answer is not "yes", no
\* TRUNCATE, INSERT or commit is issued, the table is unchanged, the CSV file is
\* not opened and nothing is imported; TRUNCATE is executed only when the table
\* is non-empty and the lower-cased answer is "yes".
C3_DeclinedChangesNothing ==
  /\ (pc # "prompt" /\ existing_count > 0 /\ Lower(response) # S_yes)
       => /\ endedBy = "declined"
          /\ truncatesIssued = 0
          /\ insertsIssued = 0
          /\ commitsIssued = 0
          /\ table = [old |-> initialRows, new |-> 0]
          /\ ~openCalled
          /\ imported_count = 0
          /\ consumed = 0
  /\ truncatesIssued > 0
       => /\ initialRows > 0
          /\ existing_count > 0
          /\ Lower(response) = S_yes
  /\ endedBy = "declined" => (initialRows > 0 /\ Lower(response) # S_yes)

C3_Witness ==
  /\ endedBy = "declined"
  /\ response = <<" ", "y", "e", "s">>
  /\ table.old = initialRows
  /\ initialRows > 0

\* C4: when the table has rows and the operator confirms, the TRUNCATE is
\* executed and committed before the first INSERT, no pre-existing row
\* survives, and with error_count = 0 the table holds as many rows after the
\* final commit as the CSV file has.
C4_TruncateBeforeImport ==
  /\ (initialRows > 0 /\ (openCalled \/ insertsIssued > 0))
       => /\ truncatesIssued = 1
          /\ commitsIssued >= 1
          /\ table.old = 0
          /\ Lower(response) = S_yes
  /\ (initialRows > 0 /\ finalCommitted /\ error_count = 0)
       => table.old + table.new = consumed

C4_Witness ==
  /\ endedBy = "normal"
  /\ initialRows > 0
  /\ error_count = 0
  /\ consumed = CommitEvery + 1
  /\ table = [old |-> 0, new |-> consumed]

\* C5 (as claimed): in the loop a commit is issued exactly when an insert brings
\* imported_count to a positive multiple of 100, one more is issued at the end
\* of the stream; between iterations the uncommitted rows number
\* imported_count mod 100, fewer than 100; rows not committed are lost when
\* the process stops.
C5_AsClaimed ==
  /\ pc = "loop" => commitsIssued = TruncateCommits + (imported_count \div CommitEvery)
  /\ finalCommitted
       => commitsIssued = TruncateCommits + (imported_count \div CommitEvery) + 1
  /\ pc = "loop" => (pendingRows = imported_count % CommitEvery /\ pendingRows < CommitEvery)
  /\ Ended => pendingRows = 0

\* C6: once connected, conn.close() has been executed exactly once however
\* import_csv_data ended, never before it ended, and every database operation
\* is issued on the open connection.
C6_ClosedOnce ==
  [][ /\ (pc' = "done" /\ endedBy' # "connect_failed")
          => (closeCount' = 1 /\ ~connOpen')
      /\ pc' # "done" => closeCount' = 0
      /\ opVars' # opVars => (connOpen /\ closeCount = 0)
    ]_vars

C6_Witness ==
  /\ endedBy = "file_missing"
  /\ closeCount = 1
  /\ ~connOpen
  /\ selectsIssued = 1

\* C7: the exit code is 0 when the run completes or the operator declines, also
\* with rows counted as errors; it is not 0 when the connection fails, and then
\* no query was issued, nor when the CSV file is missing.
C7_ExitCodes ==
  /\ endedBy \in {"normal", "declined"} => exitCode = 0
  /\ endedBy = "connect_failed"
       => /\ exitCode > 0
          /\ opVars = <<0, 0, 0, 0>>
          /\ ~openCalled
  /\ endedBy = "file_missing" => exitCode > 0
  /\ Ended <=> exitCode >= 0

C7_Witness ==
  /\ endedBy = "normal"
  /\ error_count > 0
  /\ exitCode = 0

\* C8: '' in is_recurring, recurring_frequency, notes or balance_after is bound
\* as null; is_recurring 'True' is bound as 1, any other non-empty value as 0;
\* non-empty recurring_frequency and notes are bound unchanged; an empty amount
\* makes the row an error.
C8_FieldConversion ==
  pc = "bound" =>
    /\ row.amount = S_empty => ~params.ok
    /\ params.ok =>
         /\ params.bound.is_recurring =
              (IF row.is_recurring = S_empty THEN Null
               ELSE IF row.is_recurring = <<"T", "r", "u", "e">> THEN IntParam(1)
               ELSE IntParam(0))
         /\ row.recurring_frequency = S_empty <=> params.bound.recurring_frequency = Null
         /\ row.recurring_frequency # S_empty
              => params.bound.recurring_frequency = StrParam(row.recurring_frequency)
         /\ row.notes = S_empty <=> params.bound.notes = Null
         /\ row.notes # S_empty => params.bound.notes = StrParam(row.notes)
         /\ row.balance_after = S_empty <=> params.bound.balance_after = Null
         /\ params.bound.amount.tag = "float"

C8_Witness ==
  /\ pc = "bound"
  /\ params.ok
  /\ row.is_recurring = <<"t", "r", "u", "e">>
  /\ params.bound.is_recurring = IntParam(0)
  /\ row.notes = S_empty
  /\ params.bound.notes = Null
  /\ row.balance_after = S_empty

\* C9: the CSV file is opened only after the preflight; with a non-empty table,
\* the answer "yes" and a missing file, the process exits non-zero with the
\* table empty and nothing imported; a missing file with no TRUNCATE leaves
\* the table unchanged.
C9_MissingFileAfterPreflight ==
  /\ openCalled
       => /\ selectsIssued >= 1
          /\ initialRows > 0 => (truncatesIssued = 1 /\ commitsIssued >= 1)
  /\ (endedBy = "file_missing" /\ initialRows > 0)
       => /\ Lower(response) = S_yes
          /\ exitCode > 0
          /\ table = [old |-> 0, new |-> 0]
          /\ imported_count = 0
          /\ insertsIssued = 0
  /\ (endedBy = "file_missing" /\ truncatesIssued = 0)
       => table = [old |-> initialRows, new |-> 0]

C9_Witness ==
  /\ endedBy = "file_missing"
  /\ initialRows > 0
  /\ response = <<"Y", "E", "S">>
  /\ table = [old |-> 0, new |-> 0]
  /\ exitCode = 1

\* C10 (as claimed): after every iteration imported_count + error_count is the
\* number of rows consumed, also when a periodic commit raises.
C10_AsClaimed == InLoopOrAfter => imported_count + error_count = consumed

====
